---------------------------- MODULE Spec2Model ----------------------------
(***************************************************************************)
(* Model of src/src/main.rs: the process-wide CONTEXT cell (RacyCell of    *)
(* Option<Context>), the accessors get_context / get_internal_gl, the      *)
(* event mutators, InternalGlContext::flush, helper and main.              *)
(*                                                                         *)
(* The program is single threaded.  Control is a call stack of frames;     *)
(* frame 1 is the driver: either main (lines 236-260) or an arbitrary      *)
(* caller of the library functions.  A pc label "Lnnn" is the source line  *)
(* the frame executes next.                                                *)
(*                                                                         *)
(* f32 values are modelled as integers: every value the program handles is *)
(* a small integer, which f32 represents and adds exactly.  The u32        *)
(* counters stay far below 2^32 within the bounds, so no wrap can occur.   *)
(***************************************************************************)
EXTENDS Integers, Sequences, FiniteSets

VARIABLES CONTEXT, stack, frame, status, ops

vars == <<CONTEXT, stack, frame, status, ops>>

(* ------------------------------ bounds -------------------------------- *)

\* number of library calls the arbitrary caller makes
MaxOps == 4

\* argument values the arbitrary caller passes (x and y of events)
Coord == {3, 4}

(* -------------------------- program constants ------------------------- *)

\* for frame in 0..5
NumFrames == 5

\* Option<Context>: None is the empty sequence, Some(c) the sequence <<c>>
None == << >>

Some(c) == <<c>>

\* the fields of struct Context
ContextFields ==
    { "quad_context", "gl", "screen_width", "screen_height",
      "mouse_x", "mouse_y", "touches", "simulate_mouse_with_touch" }

\* the functions of the program (with the arbitrary caller in place of main)
Functions ==
    { "main", "caller", "init_context", "flush", "helper",
      "resize_event", "mouse_motion_event", "touch_event" }

\* a default Context with simulate_mouse_with_touch off
DefaultContext_SimOff ==
    [ quad_context |-> 0, gl |-> 0,
      screen_height |-> 0, screen_width |-> 0,
      mouse_x |-> 0, mouse_y |-> 0,
      touches |-> << >>,
      simulate_mouse_with_touch |-> FALSE ]

\* a Context with an audio_buffer field next to the others
DefaultContext_WithAudio ==
    [ quad_context |-> 0, gl |-> 0,
      screen_height |-> 0, screen_width |-> 0,
      mouse_x |-> 0, mouse_y |-> 0,
      touches |-> << >>,
      simulate_mouse_with_touch |-> TRUE,
      audio_buffer |-> << >> ]

\* impl Default for Context
DefaultContext ==
    [ quad_context |-> 0, gl |-> 0,
      screen_height |-> 0, screen_width |-> 0,
      mouse_x |-> 0, mouse_y |-> 0,
      touches |-> << >>,
      simulate_mouse_with_touch |-> TRUE ]

\* struct Touch
Touch(is_touch_started, x, y) ==
    [ is_touch_started |-> is_touch_started, x |-> x, y |-> y ]

(* ------------------------------ frames -------------------------------- *)

\* A stack frame.  view is the frame's view into the Context:
\*   "none"   the frame holds no pointer or reference into the Context
\*   "valid"  it holds one, and no later get_ref_mut() has been made
\*   "stale"  it holds one, but a later get_ref_mut() created a new &mut to
\*            the whole cell, which ends the validity of every pointer
\*            derived earlier (RacyCell's safety contract, lines 13-18)
\* pre is the value of CONTEXT when the frame was entered (a history value
\* used only to state postconditions).
Frame(fn, pc, s, x, y) ==
    [ fn |-> fn, pc |-> pc, is_touch_started |-> s, x |-> x, y |-> y,
      view |-> "none", sim |-> FALSE, pre |-> CONTEXT ]

top == stack[Len(stack)]

Running == status = "running"

\* the frames that hold a view into the Context
LiveViews == { i \in DOMAIN stack : stack[i].view # "none" }

\* replace the top frame
SetTop(f) == [stack EXCEPT ![Len(stack)] = f]

\* every view handed out earlier stops being valid
Invalidate(st) ==
    [ i \in DOMAIN st |->
        IF st[i].view = "valid" THEN [st[i] EXCEPT !.view = "stale"] ELSE st[i] ]


\* the top frame, moved to pc next
Goto(next) == [top EXCEPT !.pc = next]

\* call fn: the caller resumes at cont, the callee starts at entry
Call(fn, entry, s, x, y, cont) ==
    /\ stack' = Append(SetTop(Goto(cont)), Frame(fn, entry, s, x, y))
    /\ UNCHANGED <<CONTEXT, frame, status>>

\* return from fn: the frame, and with it any view it still holds, is gone
Return(fn) ==
    /\ Running
    /\ Len(stack) > 1
    /\ top.fn = fn
    /\ top.pc = "ret"
    /\ stack' = SubSeq(stack, 1, Len(stack) - 1)
    /\ UNCHANGED <<CONTEXT, frame, status, ops>>

\* the top frame is in fn at pc
At(fn, pc) == Running /\ top.fn = fn /\ top.pc = pc

(* --------------------------- the container ---------------------------- *)

\* init_context() that leaves an initialized cell as it is
init_context_Once(next) ==
    /\ CONTEXT' = IF CONTEXT = None THEN Some(DefaultContext) ELSE CONTEXT
    /\ stack' = [Invalidate(stack) EXCEPT ![Len(stack)].pc = next]
    /\ UNCHANGED <<frame, status>>

\* unsafe fn init_context(): *CONTEXT.get_ref_mut() = Some(Context::default())
\* The get_ref_mut() is a new &mut to the cell; the store overwrites whatever
\* the cell held.
init_context(next) ==
    /\ CONTEXT' = Some(DefaultContext)
    /\ stack' = [Invalidate(stack) EXCEPT ![Len(stack)].pc = next]
    /\ UNCHANGED <<frame, status>>

\* get_context() without the match on None: hands out a pointer whatever the
\* cell holds
get_context_NoCheck(next) ==
    /\ stack' = [Invalidate(stack) EXCEPT
                   ![Len(stack)].view = "valid", ![Len(stack)].pc = next]
    /\ UNCHANGED <<CONTEXT, frame, status>>

\* get_context() behind a non-re-entrant lock: waits while a view is live
get_context_Locking(next) ==
    IF CONTEXT = None
    THEN /\ status' = "panicked"
         /\ UNCHANGED <<CONTEXT, stack, frame>>
    ELSE /\ LiveViews = {}
         /\ stack' = [stack EXCEPT
                        ![Len(stack)].view = "valid", ![Len(stack)].pc = next]
         /\ UNCHANGED <<CONTEXT, frame, status>>

\* get_context() with a borrow flag: panics while a view is live
get_context_Exclusive(next) ==
    IF CONTEXT = None \/ LiveViews # {}
    THEN /\ status' = "panicked"
         /\ UNCHANGED <<CONTEXT, stack, frame>>
    ELSE /\ stack' = [stack EXCEPT
                        ![Len(stack)].view = "valid", ![Len(stack)].pc = next]
         /\ UNCHANGED <<CONTEXT, frame, status>>

\* unsafe fn get_context() -> *mut Context, called by the top frame, which
\* keeps the result as its view.  None => panic!(); Some(x) => x.  There is
\* no lock and no liveness bit: the only condition is the Option's tag.
get_context(next) ==
    IF CONTEXT = None
    THEN /\ status' = "panicked"
         /\ UNCHANGED <<CONTEXT, stack, frame>>
    ELSE /\ stack' = [Invalidate(stack) EXCEPT
                        ![Len(stack)].view = "valid", ![Len(stack)].pc = next]
         /\ UNCHANGED <<CONTEXT, frame, status>>

\* pub unsafe fn get_internal_gl() -> InternalGlContext: get_context(), then
\* raw pointers to the fields quad_context and gl of the Context
get_internal_gl(next) == get_context(next)

\* What a store through a pointer that is no longer valid can do.  The store
\* is undefined behaviour: the ordinary build performs it; a build that
\* relies on the uniqueness of the later &mut may keep the earlier value and
\* lose the update; an instrumented run stops at the access.
UBOutcomes == {"performed", "elided", "trap"}

\* *ptr += 1 through a raw pointer of the top frame's InternalGlContext
DerefAddOne(field, next) ==
    /\ CONTEXT # None
    /\ top.view # "none"
    /\ \E o \in (IF top.view = "valid" THEN {"performed"} ELSE UBOutcomes) :
         /\ CONTEXT' = IF o = "performed"
                       THEN Some([CONTEXT[1] EXCEPT ![field] = @ + 1])
                       ELSE CONTEXT
         /\ status' = IF o = "trap" THEN "ub_trap" ELSE status
         /\ stack' = IF o = "trap" THEN stack ELSE SetTop(Goto(next))
    /\ UNCHANGED frame

\* a store to a field through the top frame's (valid) view
Store(field, value, f) ==
    /\ CONTEXT # None
    /\ top.view = "valid"
    /\ CONTEXT' = Some([CONTEXT[1] EXCEPT ![field] = value])
    /\ stack' = SetTop(f)
    /\ UNCHANGED <<frame, status>>

\* the body of init_context, line 117
Init_L117 == At("init_context", "L117") /\ init_context("ret") /\ UNCHANGED ops

Init_Return == Return("init_context")

(* ------------------------------- flush -------------------------------- *)

\* perform_render_passes without self.gl += 1
perform_render_passes_OneCounter(c) ==
    [c EXCEPT !.quad_context = @ + 1]

\* Context::perform_render_passes(&mut self)
perform_render_passes(c) ==
    [c EXCEPT !.quad_context = @ + 1, !.gl = @ + 1]

\* let c = &mut *get_context();
Flush_L209 == At("flush", "L209") /\ get_context("L210") /\ UNCHANGED ops

\* c.perform_render_passes();
Flush_L210 ==
    /\ At("flush", "L210")
    /\ CONTEXT # None
    /\ top.view = "valid"
    /\ CONTEXT' = Some(perform_render_passes(CONTEXT[1]))
    /\ stack' = SetTop(Goto("ret"))
    /\ UNCHANGED <<frame, status, ops>>

Flush_Return == Return("flush")

(* ------------------------------- helper ------------------------------- *)

\* let gl = get_internal_gl();
Helper_L231 == At("helper", "L231") /\ get_internal_gl("L232") /\ UNCHANGED ops

\* *gl.quad_gl += 1;
Helper_L232 == At("helper", "L232") /\ DerefAddOne("gl", "ret") /\ UNCHANGED ops

Helper_Return == Return("helper")

(* ---------------------------- resize_event ---------------------------- *)

\* let ctx = &mut *get_context();
Resize_L140 == At("resize_event", "L140") /\ get_context("L145") /\ UNCHANGED ops

\* the width stored where the height belongs
Resize_L145_Width ==
    /\ At("resize_event", "L145")
    /\ Store("screen_height", top.x, Goto("L146"))
    /\ UNCHANGED ops

\* ctx.screen_height = height;
Resize_L145 ==
    /\ At("resize_event", "L145")
    /\ Store("screen_height", top.y, Goto("L146"))
    /\ UNCHANGED ops

\* ctx.screen_width = width;
Resize_L146 ==
    /\ At("resize_event", "L146")
    /\ Store("screen_width", top.x, Goto("ret"))
    /\ UNCHANGED ops

Resize_Return == Return("resize_event")

(* ------------------------- mouse_motion_event ------------------------- *)

\* get_context() of line 154
Mouse_L154 == At("mouse_motion_event", "L154") /\ get_context("L154w") /\ UNCHANGED ops

\* (*get_context()).mouse_x = x;  the temporary pointer ends with the statement
Mouse_L154w ==
    /\ At("mouse_motion_event", "L154w")
    /\ Store("mouse_x", top.x, [top EXCEPT !.pc = "L155", !.view = "none"])
    /\ UNCHANGED ops

\* get_context() of line 155
Mouse_L155 == At("mouse_motion_event", "L155") /\ get_context("L155w") /\ UNCHANGED ops

\* (*get_context()).mouse_y = y;
Mouse_L155w ==
    /\ At("mouse_motion_event", "L155w")
    /\ Store("mouse_y", top.y, [top EXCEPT !.pc = "ret", !.view = "none"])
    /\ UNCHANGED ops

Mouse_Return == Return("mouse_motion_event")

(* ----------------------------- touch_event ---------------------------- *)

\* let context = unsafe { &mut *get_context() };   (first block)
Touch_L164 == At("touch_event", "L164") /\ get_context("L166") /\ UNCHANGED ops

\* context.touches.push(Touch { is_touch_started, x, y });
Touch_L166 ==
    /\ At("touch_event", "L166")
    /\ Store("touches",
             Append(CONTEXT[1].touches, Touch(top.is_touch_started, top.x, top.y)),
             Goto("L171"))
    /\ UNCHANGED ops

\* the first &mut Context kept past the end of the block
Touch_L171_KeepView ==
    /\ At("touch_event", "L171")
    /\ CONTEXT # None
    /\ top.view = "valid"
    /\ stack' = SetTop([top EXCEPT !.sim = CONTEXT[1].simulate_mouse_with_touch,
                                   !.pc = "L176"])
    /\ UNCHANGED <<CONTEXT, frame, status, ops>>

\* context.simulate_mouse_with_touch is the block's value; the block ends and
\* with it the first &mut Context
Touch_L171 ==
    /\ At("touch_event", "L171")
    /\ CONTEXT # None
    /\ top.view = "valid"
    /\ stack' = SetTop([top EXCEPT !.sim = CONTEXT[1].simulate_mouse_with_touch,
                                   !.view = "none", !.pc = "L176"])
    /\ UNCHANGED <<CONTEXT, frame, status, ops>>

\* touch_event without the synthesized mouse_motion_event
Touch_L176_NoMouse ==
    /\ At("touch_event", "L176")
    /\ stack' = SetTop(Goto("L187"))
    /\ UNCHANGED <<CONTEXT, frame, status, ops>>

\* the else branch (touch ended) without its mouse_motion_event
Touch_L176_StartOnly ==
    /\ At("touch_event", "L176")
    /\ IF top.sim /\ top.is_touch_started
       THEN Call("mouse_motion_event", "L154", FALSE, top.x, top.y, "L187")
       ELSE /\ stack' = SetTop(Goto("L187"))
            /\ UNCHANGED <<CONTEXT, frame, status>>
    /\ UNCHANGED ops

\* if simulate_mouse_with_touch { mouse_motion_event(x, y) in either branch
\* of is_touch_started }
Touch_L176 ==
    /\ At("touch_event", "L176")
    /\ IF top.sim
       THEN Call("mouse_motion_event", "L154", FALSE, top.x, top.y, "L187")
       ELSE /\ stack' = SetTop(Goto("L187"))
            /\ UNCHANGED <<CONTEXT, frame, status>>
    /\ UNCHANGED ops

\* let context = unsafe { &mut *get_context() };   (second one)
Touch_L187 == At("touch_event", "L187") /\ get_context("L193") /\ UNCHANGED ops

\* the second record put at the front of the queue
Touch_L193_Front ==
    /\ At("touch_event", "L193")
    /\ Store("touches",
             << Touch(top.is_touch_started, 100 + top.x, 100 + top.y) >>
                \o CONTEXT[1].touches,
             Goto("ret"))
    /\ UNCHANGED ops

\* context.touches.push(Touch { is_touch_started, x: 100.0 + x, y: 100.0 + y });
Touch_L193 ==
    /\ At("touch_event", "L193")
    /\ Store("touches",
             Append(CONTEXT[1].touches,
                    Touch(top.is_touch_started, 100 + top.x, 100 + top.y)),
             Goto("ret"))
    /\ UNCHANGED ops

Touch_Return == Return("touch_event")

(* -------------------------------- main -------------------------------- *)

\* unsafe { init_context(); }
Main_L240 ==
    /\ At("main", "L240")
    /\ Call("init_context", "L117", FALSE, 0, 0, "L244")
    /\ UNCHANGED ops

\* for frame in 0..5
Main_L244 ==
    /\ At("main", "L244")
    /\ stack' = SetTop(Goto(IF frame < NumFrames THEN "L245" ELSE "L258"))
    /\ UNCHANGED <<CONTEXT, frame, status, ops>>

\* let mut gl = unsafe { get_internal_gl() };
Main_L245 == At("main", "L245") /\ get_internal_gl("L246") /\ UNCHANGED ops

\* gl.flush();
Main_L246 ==
    /\ At("main", "L246")
    /\ Call("flush", "L209", FALSE, 0, 0, "L248")
    /\ UNCHANGED ops

\* unsafe { *gl.quad_context += 1; }
Main_L248 == At("main", "L248") /\ DerefAddOne("quad_context", "L250") /\ UNCHANGED ops

\* helper();
Main_L250 ==
    /\ At("main", "L250")
    /\ Call("helper", "L231", FALSE, 0, 0, "L252")
    /\ UNCHANGED ops

\* resize_event(1920., 1080.);
Main_L252 ==
    /\ At("main", "L252")
    /\ Call("resize_event", "L140", FALSE, 1920, 1080, "L253")
    /\ UNCHANGED ops

\* mouse_motion_event(42.0, 84.0);
Main_L253 ==
    /\ At("main", "L253")
    /\ Call("mouse_motion_event", "L154", FALSE, 42, 84, "L254")
    /\ UNCHANGED ops

\* touch_event(true, frame as f32, frame as f32);
Main_L254 ==
    /\ At("main", "L254")
    /\ Call("touch_event", "L164", TRUE, frame, frame, "L255")
    /\ UNCHANGED ops

\* gl.flush();   (the last use of gl in the loop body)
Main_L255 ==
    /\ At("main", "L255")
    /\ Call("flush", "L209", FALSE, 0, 0, "L256")
    /\ UNCHANGED ops

\* gl declared outside the loop: it outlives the loop body
Main_L256_KeepGl ==
    /\ At("main", "L256")
    /\ stack' = SetTop(Goto("L244"))
    /\ frame' = frame + 1
    /\ UNCHANGED <<CONTEXT, status, ops>>

\* end of the loop body: gl goes out of scope, next frame
Main_L256 ==
    /\ At("main", "L256")
    /\ stack' = SetTop([top EXCEPT !.view = "none", !.pc = "L244"])
    /\ frame' = frame + 1
    /\ UNCHANGED <<CONTEXT, status, ops>>

\* unsafe { dbg!(&*get_context()); } and the end of main
Main_L258 ==
    /\ At("main", "L258")
    /\ IF CONTEXT = None
       THEN /\ status' = "panicked"
            /\ UNCHANGED stack
       ELSE /\ status' = "exited"
            /\ stack' = [Invalidate(stack) EXCEPT ![Len(stack)].pc = "done"]
    /\ UNCHANGED <<CONTEXT, frame, ops>>

(* ------------------ an arbitrary caller of the library ---------------- *)

\* the caller is between two calls and may make another one
Idle == At("caller", "idle") /\ ops < MaxOps

Caller_init_context ==
    /\ Idle
    /\ Call("init_context", "L117", FALSE, 0, 0, "idle")
    /\ ops' = ops + 1

\* the caller keeps the InternalGlContext, as main does
Caller_get_internal_gl ==
    /\ Idle
    /\ top.view = "none"
    /\ get_internal_gl("idle")
    /\ ops' = ops + 1

\* the caller's InternalGlContext goes out of scope
Caller_drop ==
    /\ At("caller", "idle")
    /\ top.view # "none"
    /\ stack' = SetTop([top EXCEPT !.view = "none"])
    /\ UNCHANGED <<CONTEXT, frame, status, ops>>

\* flush() on the InternalGlContext held, or on one the caller built (the
\* fields of the struct are pub)
Caller_flush ==
    /\ Idle
    /\ Call("flush", "L209", FALSE, 0, 0, "idle")
    /\ ops' = ops + 1

\* *gl.quad_context += 1
Caller_write_quad_context ==
    /\ Idle
    /\ DerefAddOne("quad_context", "idle")
    /\ ops' = ops + 1

\* *gl.quad_gl += 1
Caller_write_quad_gl ==
    /\ Idle
    /\ DerefAddOne("gl", "idle")
    /\ ops' = ops + 1

Caller_helper ==
    /\ Idle
    /\ Call("helper", "L231", FALSE, 0, 0, "idle")
    /\ ops' = ops + 1

Caller_resize_event ==
    /\ Idle
    /\ \E w \in Coord, h \in Coord :
         Call("resize_event", "L140", FALSE, w, h, "idle")
    /\ ops' = ops + 1

Caller_mouse_motion_event ==
    /\ Idle
    /\ \E x \in Coord, y \in Coord :
         Call("mouse_motion_event", "L154", FALSE, x, y, "idle")
    /\ ops' = ops + 1

Caller_touch_event ==
    /\ Idle
    /\ \E s \in BOOLEAN, x \in Coord, y \in Coord :
         Call("touch_event", "L164", s, x, y, "idle")
    /\ ops' = ops + 1

(* --------------------------- specification ---------------------------- *)

\* static CONTEXT: RacyCell<Option<Context>> = RacyCell::new(None);
Init ==
    /\ CONTEXT = None
    /\ \E d \in { <<"main", "L240">>, <<"caller", "idle">> } :
         stack = << Frame(d[1], d[2], FALSE, 0, 0) >>
    /\ frame = 0
    /\ status = "running"
    /\ ops = 0

Next ==
    \/ Main_L240 \/ Main_L244 \/ Main_L245 \/ Main_L246 \/ Main_L248
    \/ Main_L250 \/ Main_L252 \/ Main_L253 \/ Main_L254 \/ Main_L255
    \/ Main_L256 \/ Main_L258
    \/ Caller_init_context \/ Caller_get_internal_gl \/ Caller_drop
    \/ Caller_flush \/ Caller_write_quad_context \/ Caller_write_quad_gl
    \/ Caller_helper \/ Caller_resize_event \/ Caller_mouse_motion_event
    \/ Caller_touch_event
    \/ Init_L117 \/ Init_Return
    \/ Flush_L209 \/ Flush_L210 \/ Flush_Return
    \/ Helper_L231 \/ Helper_L232 \/ Helper_Return
    \/ Resize_L140 \/ Resize_L145 \/ Resize_L146 \/ Resize_Return
    \/ Mouse_L154 \/ Mouse_L154w \/ Mouse_L155 \/ Mouse_L155w \/ Mouse_Return
    \/ Touch_L164 \/ Touch_L166 \/ Touch_L171 \/ Touch_L176 \/ Touch_L187
    \/ Touch_L193 \/ Touch_Return

Spec == Init /\ [][Next]_vars

(* ------------------------- auxiliary predicates ----------------------- *)

\* the places where a frame calls get_context() or get_internal_gl()
AcquirePcs ==
    { <<"main", "L245">>, <<"flush", "L209">>, <<"helper", "L231">>,
      <<"resize_event", "L140">>, <<"mouse_motion_event", "L154">>,
      <<"mouse_motion_event", "L155">>, <<"touch_event", "L164">>,
      <<"touch_event", "L187">> }

AtAcquire == Running /\ <<top.fn, top.pc>> \in AcquirePcs

Mutators == {"resize_event", "mouse_motion_event", "touch_event"}

InMain == stack[1].fn = "main"

\* the top frame has run its body and is about to return
Returning(fn) == Len(stack) > 1 /\ top.fn = fn /\ top.pc = "ret"

(* -------------------------------- C1 ---------------------------------- *)

\* C1: while CONTEXT is None no view into the Context exists; the only step
\* that changes CONTEXT is init_context; a call only pushes a frame; every
\* other step is a get_context() that ends in the panic and leaves CONTEXT
\* None and the stack as it was.
C1_UninitializedAccessPanics ==
    [][ CONTEXT = None =>
          /\ LiveViews' = {}
          /\ (CONTEXT' # None =>
                top.fn = "init_context" /\ CONTEXT' = Some(DefaultContext))
          /\ (CONTEXT' = None /\ Len(stack') <= Len(stack) =>
                status' = "panicked" /\ stack' = stack) ]_vars

\* touch_event was called before init_context and its get_context() panicked
C1_Witness ==
    /\ status = "panicked"
    /\ CONTEXT = None
    /\ Len(stack) = 2
    /\ top.fn = "touch_event"
    /\ top.pc = "L164"

(* -------------------------------- C2 ---------------------------------- *)

\* C2: in the execution of main at most one mutable view into the Context
\* is live at any time.
C2_NoTwoMutableViews == InMain => Cardinality(LiveViews) <= 1

(* -------------------------------- C3 ---------------------------------- *)

\* C3 as claimed: right after any flush() the two counters are equal.
C3_PairedAfterFlush ==
    Returning("flush") => CONTEXT[1].quad_context = CONTEXT[1].gl

\* C3 as amended: each flush() adds exactly 1 to quad_context and to gl, so
\* the counters are equal right after a flush exactly when they were equal
\* right before it.
C3_FlushAddsOneToBoth ==
    Returning("flush") =>
        /\ CONTEXT[1].quad_context = top.pre[1].quad_context + 1
        /\ CONTEXT[1].gl = top.pre[1].gl + 1
        /\ (CONTEXT[1].quad_context = CONTEXT[1].gl
              <=> top.pre[1].quad_context = top.pre[1].gl)

\* a flush() has run on a Context whose counters differed (after a write to
\* one counter through an InternalGlContext pointer)
C3_Witness ==
    /\ Returning("flush")
    /\ top.pre[1].quad_context # top.pre[1].gl
    /\ CONTEXT[1].quad_context # CONTEXT[1].gl

(* -------------------------------- C4 ---------------------------------- *)

\* C4: touch_event(s, x, y) appends {s, x, y} and then {s, x+100, y+100} to
\* the end of touches, and with simulate_mouse_with_touch set the mouse
\* position is (x, y) after the call, for both values of s.
C4_TouchAppendsTwo ==
    Returning("touch_event") =>
        /\ CONTEXT[1].touches =
             top.pre[1].touches \o
               << Touch(top.is_touch_started, top.x, top.y),
                  Touch(top.is_touch_started, top.x + 100, top.y + 100) >>
        /\ (top.pre[1].simulate_mouse_with_touch =>
              CONTEXT[1].mouse_x = top.x /\ CONTEXT[1].mouse_y = top.y)

\* touch_event(true, 3, 4) on a fresh Context
C4_Witness ==
    /\ Returning("touch_event")
    /\ top.pre = Some(DefaultContext)
    /\ top.is_touch_started /\ top.x = 3 /\ top.y = 4
    /\ CONTEXT[1].touches = << Touch(TRUE, 3, 4), Touch(TRUE, 103, 104) >>
    /\ CONTEXT[1].mouse_x = 3 /\ CONTEXT[1].mouse_y = 4

(* -------------------------------- C5 ---------------------------------- *)

C6_ReentrantAcquireBlocks ==
    InMain /\ stack[1].view # "none" =>
        /\ frame = 0
        /\ \A i \in 2..Len(stack) :
             stack[i].view = "none" /\ <<stack[i].fn, stack[i].pc>> \in AcquirePcs

\* C6 as amended: while main holds gl, a frame it called that is at its call
\* of get_context()/get_internal_gl() can take its step, and the step gives
\* it a view at once, next to the one main still holds.
C6_ReentrantAcquireSucceeds ==
    InMain /\ stack[1].view # "none" /\ Len(stack) > 1 /\ AtAcquire =>
        ENABLED (Next /\ Cardinality(LiveViews') >= 2 /\ status' = "running")

\* helper() holds the view of its get_internal_gl() while main holds gl
C6_Witness ==
    /\ InMain
    /\ stack[1].view # "none"
    /\ Len(stack) = 2
    /\ top.fn = "helper" /\ top.pc = "L232" /\ top.view = "valid"

(* -------------------------------- C7 ---------------------------------- *)

\* C7: a mutator that has called another mutator holds no view meanwhile;
\* only touch_event calls one (mouse_motion_event), after its first push,
\* and takes the view for the second push after that call has returned.
C7_MutatorsReleaseBeforeCalling ==
    \A i \in 1..(Len(stack) - 1) :
        stack[i].fn \in Mutators =>
            /\ stack[i].view = "none"
            /\ stack[i].fn = "touch_event"
            /\ stack[i].pc = "L187"
            /\ stack[i + 1].fn = "mouse_motion_event"
            /\ i + 1 = Len(stack)
            /\ Len(CONTEXT[1].touches) = Len(stack[i].pre[1].touches) + 1

\* mouse_motion_event, called by touch_event, holds its own view
C7_Witness ==
    /\ Len(stack) = 3
    /\ stack[2].fn = "touch_event"
    /\ top.fn = "mouse_motion_event"
    /\ top.view = "valid"

(* -------------------------------- C8 ---------------------------------- *)

\* C8: when main is inside a call of helper or of an event mutator it holds
\* no view: gl has been released before the call.
C8_DriverReleasesBeforeCalls ==
    InMain /\ Len(stack) > 1 /\ stack[2].fn \in (Mutators \cup {"helper"}) =>
        stack[1].view = "none"

(* -------------------------------- C9 ---------------------------------- *)

\* C9: once CONTEXT is Some it stays Some and nothing panics; a frame at a
\* call of get_context()/get_internal_gl() can take its step whatever views
\* are live, and the step leaves it with a valid view.
C9_AcquireAlwaysSucceeds ==
    [][ CONTEXT # None =>
          /\ CONTEXT' # None
          /\ status' # "panicked"
          /\ (AtAcquire =>
                /\ ENABLED Next
                /\ Len(stack') = Len(stack)
                /\ stack'[Len(stack)].view = "valid") ]_vars

\* a get_context() has succeeded while an earlier view was still held
C9_Witness ==
    /\ status = "running"
    /\ Len(stack) > 1
    /\ top.view = "valid"
    /\ stack[1].view = "stale"

(* -------------------------------- C10 --------------------------------- *)

\* C10: when main reaches the dbg! of the whole Context, the loop has run
\* all its frames, no call is in progress and no view is live.
C10_SnapshotWithoutLiveView ==
    At("main", "L258") =>
        /\ LiveViews = {}
        /\ Len(stack) = 1
        /\ frame = NumFrames

\* main is at the dbg!
C10_Witness == At("main", "L258") /\ CONTEXT # None /\ LiveViews = {}

(* -------------------------------- C11 --------------------------------- *)

C12_SecondInitOverwrites ==
    Returning("init_context") /\ top.pre # None =>
        /\ status = "running"
        /\ CONTEXT # None
        /\ CONTEXT[1].quad_context = 0 /\ CONTEXT[1].gl = 0
        /\ CONTEXT[1].screen_width = 0 /\ CONTEXT[1].screen_height = 0
        /\ CONTEXT[1].mouse_x = 0 /\ CONTEXT[1].mouse_y = 0
        /\ CONTEXT[1].touches = << >>
        /\ CONTEXT[1].simulate_mouse_with_touch

\* a second init_context() has discarded touches and a mouse position
C12_Witness ==
    /\ Returning("init_context")
    /\ top.pre # None
    /\ Len(top.pre[1].touches) = 2
    /\ top.pre[1].mouse_x = 3
    /\ CONTEXT[1].touches = << >>
    /\ CONTEXT[1].mouse_x = 0

(* -------------------------------- C13 --------------------------------- *)

\* C13: on return, resize_event(w, h) has set screen_width = w and
\* screen_height = h, mouse_motion_event(x, y) has set mouse_x = x and
\* mouse_y = y, flush() has added 1 to quad_context and to gl, helper() has
\* added 1 to gl, and each has left every other field as it was at the call.
C13_FrameEffects ==
    /\ Returning("resize_event") =>
         CONTEXT[1] = [top.pre[1] EXCEPT !.screen_width = top.x,
                                         !.screen_height = top.y]
    /\ Returning("mouse_motion_event") =>
         CONTEXT[1] = [top.pre[1] EXCEPT !.mouse_x = top.x, !.mouse_y = top.y]
    /\ Returning("flush") =>
         CONTEXT[1] = [top.pre[1] EXCEPT !.quad_context = @ + 1, !.gl = @ + 1]
    /\ Returning("helper") =>
         CONTEXT[1] = [top.pre[1] EXCEPT !.gl = @ + 1]

\* resize_event(3, 4) returns on a Context that held touches and a mouse
\* position
C13_Witness ==
    /\ Returning("resize_event")
    /\ top.x = 3 /\ top.y = 4
    /\ CONTEXT[1].screen_width = 3 /\ CONTEXT[1].screen_height = 4
    /\ Len(CONTEXT[1].touches) = 2
    /\ CONTEXT[1].mouse_x = 4

(* -------------------------------- C14 --------------------------------- *)

\* the first n elements of q are the sequence p
IsPrefix(p, q) == Len(p) <= Len(q) /\ SubSeq(q, 1, Len(p)) = p

\* the records main's touch_event calls of frames 0..n-1 append, in order
MainTouches(n) ==
    [ i \in 1..(2 * n) |->
        IF i % 2 = 1 THEN Touch(TRUE, (i - 1) \div 2, (i - 1) \div 2)
                     ELSE Touch(TRUE, 100 + (i - 2) \div 2, 100 + (i - 2) \div 2) ]

\* C14: in every step that is not the store of init_context the touch queue
\* before the step is a prefix of the queue after it; only touch_event
\* makes it longer; each touch_event call appends 2 records, so in main
\* after n calls it holds exactly the 2n records of frames 0..n-1 in the
\* order of the calls.
C14_TouchesAppendOnly ==
    [][ CONTEXT # None /\ CONTEXT' # None /\ top.fn # "init_context" =>
          /\ IsPrefix(CONTEXT[1].touches, CONTEXT'[1].touches)
          /\ (CONTEXT'[1].touches # CONTEXT[1].touches =>
                /\ top.fn = "touch_event"
                /\ Len(CONTEXT'[1].touches) = Len(CONTEXT[1].touches) + 1)
          /\ (Returning("touch_event")' =>
                Len(CONTEXT'[1].touches) = Len(top'.pre[1].touches) + 2)
          /\ (InMain /\ Len(stack') = 1 =>
                CONTEXT'[1].touches =
                  MainTouches(IF stack'[1].pc \in {"L255", "L256"}
                              THEN frame' + 1 ELSE frame')) ]_vars

\* main after its third touch_event call: 6 records, in the order of the calls
C14_Witness ==
    /\ InMain
    /\ Len(stack) = 1
    /\ stack[1].pc = "L255"
    /\ frame = 2
    /\ Len(CONTEXT[1].touches) = 6
    /\ CONTEXT[1].touches[5] = Touch(TRUE, 2, 2)
    /\ CONTEXT[1].touches[6] = Touch(TRUE, 102, 102)

(* -------------------------------- C15 --------------------------------- *)

\* main is between its store to quad_context (line 248) and the store to gl
\* in helper (line 232)
BetweenWriteAndHelper ==
    \/ Len(stack) = 1 /\ stack[1].pc = "L250"
    \/ /\ Len(stack) = 2
       /\ stack[2].fn = "helper"
       /\ stack[2].pc \in {"L231", "L232"}

C16_AlwaysSimulatesMouse ==
    [][ /\ (CONTEXT' # None => CONTEXT'[1].simulate_mouse_with_touch)
        /\ (CONTEXT # None /\ CONTEXT' # None /\ top.fn # "init_context" =>
              CONTEXT'[1].simulate_mouse_with_touch
                = CONTEXT[1].simulate_mouse_with_touch)
        /\ (At("touch_event", "L176")' => top'.sim)
        /\ (At("touch_event", "L187")' =>
              /\ CONTEXT'[1].mouse_x = top'.x
              /\ CONTEXT'[1].mouse_y = top'.y
              /\ Len(CONTEXT'[1].touches) = Len(top'.pre[1].touches) + 1) ]_vars

\* touch_event(false, 4, 3) after its synthesized mouse_motion_event, on a
\* Context whose mouse was elsewhere
C16_Witness ==
    /\ At("touch_event", "L187")
    /\ ~top.is_touch_started
    /\ top.x = 4 /\ top.y = 3
    /\ top.pre[1].mouse_x = 3 /\ top.pre[1].mouse_y = 4
    /\ CONTEXT[1].mouse_x = 4 /\ CONTEXT[1].mouse_y = 3

(* -------------------------------- C17 --------------------------------- *)

\* C17: in main, once the touch_event of frame k has returned, and to the
\* end of the frame, the mouse is at (k, k) and the queue ends with
\* {true, k, k}, {true, k+100, k+100}; before it, after the explicit
\* mouse_motion_event, the mouse is at (42, 84); at the end of main the
\* mouse is at (4, 4).
C17_TouchOverridesMouse ==
    InMain /\ CONTEXT # None =>
        /\ (Len(stack) = 1 /\ stack[1].pc = "L254" =>
              CONTEXT[1].mouse_x = 42 /\ CONTEXT[1].mouse_y = 84)
        /\ ( \/ Len(stack) = 1 /\ stack[1].pc = "L255"
             \/ stack[1].pc = "L256" =>
              /\ CONTEXT[1].mouse_x = frame /\ CONTEXT[1].mouse_y = frame
              /\ Len(CONTEXT[1].touches) = 2 * (frame + 1)
              /\ CONTEXT[1].touches[2 * frame + 1] = Touch(TRUE, frame, frame)
              /\ CONTEXT[1].touches[2 * frame + 2] =
                   Touch(TRUE, frame + 100, frame + 100))
        /\ (stack[1].pc \in {"L258", "done"} =>
              CONTEXT[1].mouse_x = 4 /\ CONTEXT[1].mouse_y = 4)

\* main has ended with the mouse where the last touch put it
C17_Witness ==
    /\ InMain
    /\ status = "exited"
    /\ stack[1].pc = "done"
    /\ CONTEXT[1].mouse_x = 4 /\ CONTEXT[1].mouse_y = 4
    /\ CONTEXT[1].touches[9] = Touch(TRUE, 4, 4)
    /\ CONTEXT[1].touches[10] = Touch(TRUE, 104, 104)

=============================================================================
